---- MODULE Spec2Model ----
(***************************************************************************)
(* Model of the stemtalk audio-analysis service:                           *)
(*   - analyzeAudio and the POST handler of app/api/analyze/route.js, in   *)
(*     both versions the repository holds (the one that imports its        *)
(*     collaborators inside the handler, and the one that imports them     *)
(*     statically and builds the OpenAI client at module level);           *)
(*   - the AnalyzePanel client component.                                  *)
(*                                                                         *)
(* Numbers.  A sample is a rational v/u: the decoder's channels hold       *)
(* integers in units of 1/Scale, and a buffer is a record [v, u] of the    *)
(* numerators and the common denominator, so that the downmix's division   *)
(* by the channel count is exact.  Float32/Float64 rounding is not         *)
(* modelled.  Math.sqrt and Math.log10 are computed in fixed point and     *)
(* toFixed renders the rounded value as decimal text.                      *)
(*                                                                         *)
(* Steps.  JavaScript runs a handler to completion between two awaits, so  *)
(* each action is the settling of one awaited promise followed by all the  *)
(* synchronous code up to the next await or the response.                  *)
(***************************************************************************)
EXTENDS Integers, Sequences, FiniteSets, TLC

\* ------------------------------------------------------------------ bounds

\* Longest channel (in frames) the modelled decoder returns, the long recording apart.
MaxFrames == 2
\* Most channels the modelled decoder returns.
MaxChannels == 2
\* Longest buffer analyzeAudio is applied to in SpecAudio, the long recording apart.
MaxLen == 3

\* Amplitudes are integers in units of 1/Scale (100 = full scale 1.0).
Scale == 100
\* Amplitudes the decoder's channels are drawn from: silence and full scale.
Amplitudes == {0, 100}
\* Amplitudes of the buffers of SpecAudio: adds 0.01, the threshold of the width heuristic.
AudioAmplitudes == {-100, 0, 1, 100}

\* Number of arguments a spread call can pass before the engine throws
\* RangeError (V8: on the order of 10^5; scaled to the model's buffers).
MaxSpreadArgs == 3

\* A recording too long for a spread call: real audio has 44100 frames a second.
LongRecording == [i \in 1..(MaxSpreadArgs + 1) |-> 100]

\* ------------------------------------------------------------------- state

\* One request served by the POST handler.
VARIABLES
  route,       \* which version of the route module serves the request
  pc,          \* the await the handler is suspended at, "decoded", or "done"
  file,        \* formData.get("file"): "unread", "missing" or "present"
  mm,          \* the music-metadata module is available
  wavDecoder,  \* the wav-decoder module is available
  OpenAI,      \* the default export of the openai module: "unset", "class" or
               \* "undefined"; "rejected" when the import failed
  openai,      \* the client: "none", "constructed" or "threw"
  metadata,    \* the format record of the metadata parser, or the empty record
  wav,         \* what decode settled with
  samples,     \* the mono buffer (<<>> until computed)
  analysis,    \* the metrics record (<<>> until computed)
  completion,  \* the completion promise: "none", "pending", "resolved" or "rejected"
  aiText,      \* the text read from the completion
  feedback,    \* the feedback object (<<>> until computed)
  calls,       \* the collaborators invoked so far, in order
  responses    \* the responses returned so far

hvars == <<route, pc, file, mm, wavDecoder, OpenAI, openai, metadata, wav, samples,
           analysis, completion, aiText, feedback, calls, responses>>

\* One call of analyzeAudio (SpecAudio).
VARIABLES
  buf,      \* the buffer handed to analyzeAudio
  metrics   \* the outcome of the call (<<>> until it is made)

avars == <<buf, metrics>>

\* The AnalyzePanel component (SpecPanel).
VARIABLES
  panelFile,  \* the state `file`: the selected file, "" when none
  result,     \* the state `result`: <<>> for null, else <<data>>
  loading,    \* the state `loading`
  error,      \* the state `error`
  submit      \* where handleSubmit is suspended: "idle", "fetch", "json" or "errorJson"

pvars == <<panelFile, result, loading, error, submit>>

vars == <<hvars, avars, pvars>>

\* ------------------------------------------------------------ arithmetic

Abs(x) == IF x < 0 THEN -x ELSE x

Max2(a, b) == IF a >= b THEN a ELSE b

Min2(a, b) == IF a <= b THEN a ELSE b

RECURSIVE SumSeq(_)
SumSeq(s) == IF s = <<>> THEN 0 ELSE Head(s) + SumSeq(Tail(s))

\* samples.reduce((a, v) => a + v * v, 0), on the numerators
SumSquares(s) == SumSeq([i \in 1..Len(s) |-> s[i] * s[i]])

\* Math.max(...samples.map((v) => Math.abs(v))), on the numerators
RECURSIVE MaxAbs(_)
MaxAbs(s) == IF s = <<>> THEN 0 ELSE Max2(Abs(Head(s)), MaxAbs(Tail(s)))

\* Math.min(...lens)
RECURSIVE MinSeq(_)
MinSeq(s) == IF Len(s) = 1 THEN Head(s) ELSE Min2(Head(s), MinSeq(Tail(s)))

\* the sequences over S of length at most n
RECURSIVE SeqsUpTo(_, _)
SeqsUpTo(S, n) ==
  IF n = 0 THEN {<<>>}
  ELSE LET R == SeqsUpTo(S, n - 1)
       IN R \cup {Append(s, x) : s \in {r \in R : Len(r) = n - 1}, x \in S}

\* round(sqrt(p / q)) for p >= 0, q > 0, built bit by bit from bit b down:
\* the largest r with (2r - 1)^2 * q <= 4p.
RECURSIVE SqrtBits(_, _, _, _)
SqrtBits(p, q, r, b) ==
  IF b < 0 THEN r
  ELSE LET t == r + 2 ^ b
       IN IF (2 * t - 1) * (2 * t - 1) * q <= 4 * p
          THEN SqrtBits(p, q, t, b - 1)
          ELSE SqrtBits(p, q, r, b - 1)

RoundSqrt(p, q) == SqrtBits(p, q, 0, 10)

\* Fixed point of the logarithm: FracBits fractional bits.
FracBits == 20
One == 2 ^ FracBits

\* log2(1 + 2^-i) * 2^FracBits, i = 1..FracBits
Log2Table ==
  << 613378, 337566, 178179, 91711, 46551, 23454, 11773, 5898, 2952, 1477,
     738, 369, 185, 92, 46, 23, 12, 6, 3, 1 >>

\* floor(p * 2^FracBits / q) for q <= p < 2q, by long division
RECURSIVE Mantissa(_, _, _, _)
Mantissa(m, rem, q, k) ==
  IF k = 0 THEN m
  ELSE IF 2 * rem >= q THEN Mantissa(2 * m + 1, 2 * rem - q, q, k - 1)
       ELSE Mantissa(2 * m, 2 * rem, q, k - 1)

\* log2 of x / 2^FracBits in [1, 2): multiply x up to 2 by factors (1 + 2^-i)
RECURSIVE Log2Frac(_, _, _)
Log2Frac(x, y, i) ==
  IF i > FracBits THEN One - y
  ELSE LET t == x + (x \div (2 ^ i))
       IN IF t <= 2 * One THEN Log2Frac(t, y + Log2Table[i], i + 1)
          ELSE Log2Frac(x, y, i + 1)

\* 100000 * log10(p / q) for p, q > 0 (log10(2) = 0.30103), within 2 units
RECURSIVE Log10e5(_, _)
Log10e5(p, q) ==
  IF p >= 2 * q THEN 30103 + Log10e5(p, 2 * q)
  ELSE IF p < q THEN Log10e5(2 * p, q) - 30103
  ELSE ((Log2Frac(Mantissa(1, p - q, q, FracBits), 0, 1) \div 16) * 30103) \div 65536

\* x / d rounded to the nearest integer, ties away from zero
RoundDiv(x, d) == IF x >= 0 THEN (2 * x + d) \div (2 * d) ELSE -((2 * (-x) + d) \div (2 * d))

\* ------------------------------------------------------------ formatting

\* the decimal digits of n >= 0, left-padded with zeros to w digits
RECURSIVE Pad(_, _)
Pad(s, w) == IF Len(s) >= w THEN s ELSE Pad("0" \o s, w)

\* Number.prototype.toFixed(d) of the value n / 10^d
toFixed(n, d) ==
  LET m == Abs(n)
  IN (IF n < 0 THEN "-" ELSE "") \o ToString(m \div (10 ^ d)) \o "."
       \o Pad(ToString(m % (10 ^ d)), d)

\* ----------------------------------------------------------- analyzeAudio

\* Math.abs(mean) < 0.01, mean = sum / n, on a buffer of unit u
MeanBelowThreshold(v, u) == 100 * Abs(SumSeq(v)) < u * Len(v)

\* stereoWidth in tenths (7 = 0.7, 9 = 0.9, 0 = the empty-input 0)
StereoWidth(v, u) == IF MeanBelowThreshold(v, u) THEN 7 ELSE 9

\* 20 * Math.log10(peak / rms) in hundredths of a dB, when peak > 0 and rms > 0
DynamicRange(v) ==
  LET pk == MaxAbs(v)
      ss == SumSquares(v)
  IN IF pk > 0 /\ ss > 0 THEN RoundDiv(Log10e5(pk * pk * Len(v), ss), 100) ELSE 0

\* 100000 * log10(1e-12): the floor Math.max(rms ** 2, 1e-12) puts under the logarithm
FloorLog == -1200000

\* -0.691 + 10 * Math.log10(Math.max(rms ** 2, 1e-12)) in hundredths
Lufs(v, u) ==
  LET ss == SumSquares(v)
      lg == IF ss = 0 THEN FloorLog ELSE Max2(Log10e5(ss, Len(v) * u * u), FloorLog)
  IN RoundDiv(lg - 6910, 100)

EmptyMetrics ==
  [rms |-> "0.000", peak |-> "0.000", dynamicRange |-> "0.00", lufs |-> "0.00",
   stereoWidth |-> 0]

\* the spread call Math.max(...array) throws RangeError past the engine's limit
SpreadThrows(n) == n > MaxSpreadArgs

\* The outcome of a call: the value returned (val = <<value>>), or the error thrown.
Returned(x) == [threw |-> "", val |-> <<x>>]
Threw(e) == [threw |-> e, val |-> <<>>]

\* analyzeAudio(samples, sampleRate); sampleRate is not read
analyzeAudio(s) ==
  LET v == s.v
      u == s.u
      n == Len(v)
      k == u \div Scale
  IN IF n = 0 THEN Returned(EmptyMetrics)
     ELSE IF SpreadThrows(n) THEN Threw("RangeError")
     ELSE Returned(
          [rms |-> toFixed(RoundSqrt(100 * SumSquares(v), n * k * k), 3),
           peak |-> toFixed(RoundDiv(10 * MaxAbs(v), k), 3),
           dynamicRange |-> toFixed(DynamicRange(v), 2),
           lufs |-> toFixed(Lufs(v, u), 2),
           stereoWidth |-> StereoWidth(v, u)])

\* ------------------------------------------------------------------ JSON

\* A JSON value: t is its type, s the text of a string or a number, keys and
\* items the members of an object (in insertion order), items the elements of an array.
JValue(t, s, keys, items) == [t |-> t, s |-> s, keys |-> keys, items |-> items]
JNull == JValue("null", "", <<>>, <<>>)
JBool(b) == JValue("boolean", b, <<>>, <<>>)
JNum(s) == JValue("number", s, <<>>, <<>>)
JStr(s) == JValue("string", s, <<>>, <<>>)
JArr(items) == JValue("array", "", <<>>, items)
JObj(keys, items) == JValue("object", "", keys, items)

Drop(s, n) == SubSeq(s, n + 1, Len(s))
StartsWith(s, p) == Len(s) >= Len(p) /\ SubSeq(s, 1, Len(p)) = p

WhiteSpace == {" ", "\t", "\n", "\r"}
DigitChars == {"0", "1", "2", "3", "4", "5", "6", "7", "8", "9"}
HexChars == DigitChars \cup {"a", "b", "c", "d", "e", "f", "A", "B", "C", "D", "E", "F"}

RECURSIVE SkipWs(_)
SkipWs(s) == IF s # "" /\ Head(s) \in WhiteSpace THEN SkipWs(Tail(s)) ELSE s

RECURSIVE TrimEnd(_)
TrimEnd(s) ==
  IF s # "" /\ SubSeq(s, Len(s), Len(s)) \in WhiteSpace
  THEN TrimEnd(SubSeq(s, 1, Len(s) - 1)) ELSE s

\* String.prototype.trim
trim(s) == TrimEnd(SkipWs(s))

\* the number of digits s starts with
RECURSIVE CountDigits(_)
CountDigits(s) == IF s # "" /\ Head(s) \in DigitChars THEN 1 + CountDigits(Tail(s)) ELSE 0

Parsed(v, rest) == [ok |-> TRUE, v |-> v, rest |-> rest]
SyntaxError == [ok |-> FALSE, v |-> JNull, rest |-> ""]

\* number: -? (0 | [1-9][0-9]*) (. [0-9]+)? ([eE] [+-]? [0-9]+)?
ParseNumber(s) ==
  LET neg == IF StartsWith(s, "-") THEN 1 ELSE 0
      a == Drop(s, neg)
      int == IF StartsWith(a, "0") THEN 1 ELSE CountDigits(a)
      b == Drop(a, int)
      fd == IF StartsWith(b, ".") THEN CountDigits(Tail(b)) ELSE 0
      frac == IF StartsWith(b, ".") THEN 1 + fd ELSE 0
      c == Drop(b, frac)
      hasE == StartsWith(c, "e") \/ StartsWith(c, "E")
      sg == IF hasE /\ (StartsWith(Tail(c), "+") \/ StartsWith(Tail(c), "-")) THEN 1 ELSE 0
      ed == IF hasE THEN CountDigits(Drop(c, 1 + sg)) ELSE 0
      exp == IF hasE THEN 1 + sg + ed ELSE 0
      len == neg + int + frac + exp
  IN IF int = 0 \/ (StartsWith(b, ".") /\ fd = 0) \/ (hasE /\ ed = 0) THEN SyntaxError
     ELSE Parsed(JNum(SubSeq(s, 1, len)), Drop(s, len))

\* the character an escape \c stands for ("" when c is no escape); a backspace,
\* which the strings of the model cannot hold, is kept as written
Unescape(c) ==
  CASE c = "\"" -> "\""
    [] c = "\\" -> "\\"
    [] c = "/" -> "/"
    [] c = "n" -> "\n"
    [] c = "t" -> "\t"
    [] c = "r" -> "\r"
    [] c = "b" -> "\\b"
    [] c = "f" -> "\f"
    [] OTHER -> ""

\* the rest of a string after its opening quote; acc is the text read so far.
\* A \uXXXX escape is kept as written.
RECURSIVE ParseStringBody(_, _)
ParseStringBody(s, acc) ==
  IF s = "" THEN SyntaxError
  ELSE LET c == Head(s)
       IN IF c = "\"" THEN Parsed(JStr(acc), Tail(s))
          ELSE IF c \in {"\n", "\t", "\r"} THEN SyntaxError
          ELSE IF c = "\\"
               THEN IF Len(s) < 2 THEN SyntaxError
                    ELSE LET e == SubSeq(s, 2, 2)
                         IN IF e = "u"
                            THEN IF Len(s) >= 6
                                    /\ \A i \in 3..6 : SubSeq(s, i, i) \in HexChars
                                 THEN ParseStringBody(Drop(s, 6), acc \o SubSeq(s, 1, 6))
                                 ELSE SyntaxError
                            ELSE IF Unescape(e) = "" THEN SyntaxError
                            ELSE ParseStringBody(Drop(s, 2), acc \o Unescape(e))
               ELSE ParseStringBody(Tail(s), acc \o c)

\* the member k: v added to an object; a repeated key keeps its place and takes the last value
ObjPut(keys, items, k, v) ==
  IF \E i \in 1..Len(keys) : keys[i] = k
  THEN [keys |-> keys, items |-> [i \in 1..Len(items) |-> IF keys[i] = k THEN v ELSE items[i]]]
  ELSE [keys |-> Append(keys, k), items |-> Append(items, v)]

RECURSIVE ParseValue(_), ParseElements(_, _), ParseMembers(_, _, _)

\* after the element e of an array: a comma and the next element, or the closing bracket
AfterElement(e, r, acc) ==
  IF ~e.ok THEN SyntaxError
  ELSE IF StartsWith(r, ",") THEN ParseElements(SkipWs(Tail(r)), Append(acc, e.v))
  ELSE IF StartsWith(r, "]") THEN Parsed(JArr(Append(acc, e.v)), Tail(r))
  ELSE SyntaxError

\* after a member of an object, o being the members read so far: a comma and the
\* next member, or the closing brace
AfterMember(r, o) ==
  IF StartsWith(r, ",") THEN ParseMembers(SkipWs(Tail(r)), o.keys, o.items)
  ELSE IF StartsWith(r, "}") THEN Parsed(JObj(o.keys, o.items), Tail(r))
  ELSE SyntaxError

\* the value e of the member named key
MemberValue(key, e, keys, items) ==
  IF ~e.ok THEN SyntaxError
  ELSE AfterMember(SkipWs(e.rest), ObjPut(keys, items, key, e.v))

\* after the key k of a member, r being what follows it: a colon and the value
AfterKey(k, r, keys, items) ==
  IF ~k.ok \/ ~StartsWith(r, ":") THEN SyntaxError
  ELSE MemberValue(k.v.s, ParseValue(SkipWs(Tail(r))), keys, items)

\* the text after an opening bracket
ArrayBody(r) ==
  IF StartsWith(r, "]") THEN Parsed(JArr(<<>>), Tail(r)) ELSE ParseElements(r, <<>>)

\* the text after an opening brace
ObjectBody(r) ==
  IF StartsWith(r, "}") THEN Parsed(JObj(<<>>, <<>>), Tail(r))
  ELSE ParseMembers(r, <<>>, <<>>)

\* one value at the start of s (no leading white space)
ParseValue(s) ==
  IF s = "" THEN SyntaxError
  ELSE CASE StartsWith(s, "null") -> Parsed(JNull, Drop(s, 4))
         [] StartsWith(s, "true") -> Parsed(JBool("true"), Drop(s, 4))
         [] StartsWith(s, "false") -> Parsed(JBool("false"), Drop(s, 5))
         [] Head(s) = "\"" -> ParseStringBody(Tail(s), "")
         [] Head(s) = "-" \/ Head(s) \in DigitChars -> ParseNumber(s)
         [] Head(s) = "[" -> ArrayBody(SkipWs(Tail(s)))
         [] Head(s) = "{" -> ObjectBody(SkipWs(Tail(s)))
         [] OTHER -> SyntaxError

\* the elements of an array from the next one on, up to the closing bracket
ElementParsed(e, acc) == AfterElement(e, SkipWs(e.rest), acc)

ParseElements(s, acc) == ElementParsed(ParseValue(s), acc)

\* the members of an object from the next one on, up to the closing brace
KeyParsed(k, keys, items) == AfterKey(k, SkipWs(k.rest), keys, items)

ParseMembers(s, keys, items) ==
  IF ~StartsWith(s, "\"") THEN SyntaxError
  ELSE KeyParsed(ParseStringBody(Tail(s), ""), keys, items)

\* JSON.parse(text): the value, or SyntaxError (ok = FALSE) when it throws
Whole(r) == IF r.ok /\ SkipWs(r.rest) = "" THEN Parsed(r.v, "") ELSE SyntaxError

JSONparse(text) == Whole(ParseValue(SkipWs(text)))

\* the member k of an object (JNull when absent)
Member(o, k) ==
  IF \E i \in 1..Len(o.keys) : o.keys[i] = k
  THEN o.items[CHOOSE i \in 1..Len(o.keys) : o.keys[i] = k]
  ELSE JNull

\* ---------------------------------------------------------- POST handler

\* {} : a metadata record without a sample rate
EmptyMetadata == [sampleRate |-> 0]

\* the format records the metadata parser yields
Formats == {[sampleRate |-> 48000]}

\* One channel of the decoder's channelData: a Float32Array, or a hole (null / undefined).
Float32Array(data) == [hole |-> FALSE, data |-> data]
Hole == [hole |-> TRUE, data |-> <<>>]

NotDecoded == [state |-> "none", channelData |-> <<>>]
DecodeThrew == [state |-> "threw", channelData |-> <<>>]
DecodeResolved(channels) == [state |-> "ok", channelData |-> channels]

\* the messages of the errors a collaborator throws ("" : an error without a message)
Messages == {"", "Connection error."}

\* what the completion resolves with as choices[0].message.content (null reads as "")
AiTexts ==
  { "", "  ", " Solid low end, vocals sit well. \n",
    "42", " null ", "[\"a\"]", "\"Great mix\"", "{}",
    "{\"mixSummary\":\"ok\"}",
    "{\"mixSummary\":7,\"recommendations\":[]}",
    "{\"mixSummary\":\"ok\",\"recommendations\":\"a\"}",
    "{\"mixSummary\":\"ok\",\"recommendations\":[\"a\",3]}",
    " {\"mixSummary\": \"ok\", \"recommendations\": [\"a\", \"b\", \"c\"]} ",
    "{\"recommendations\":[],\"mixSummary\":\"\"}",
    "Here you go: {\"mixSummary\":\"ok\",\"recommendations\":[]}",
    "{\"mixSummary\":\"ok\",\"recommendations\":[\"a\"" }

\* NextResponse.json({ error }, { status })
ErrorResponse(msg, status) ==
  [status |-> status, error |-> <<msg>>, analysis |-> <<>>, feedback |-> <<>>,
   metadata |-> <<>>]

\* NextResponse.json({ analysis, feedback, metadata })
OkResponse(a, f, m) ==
  [status |-> 200, error |-> <<>>, analysis |-> <<a>>, feedback |-> <<f>>,
   metadata |-> <<m>>]

\* the outer catch: { error: err?.message || "Internal server error" }, status 500
Unhandled(msg) == ErrorResponse(IF msg = "" THEN "Internal server error" ELSE msg, 500)

NoFileResponse == ErrorResponse("No file uploaded", 400)

\* mutant: the decode failure reported as a bad request
DecodeFailedAsBadRequest(r) == ErrorResponse("Failed to decode audio.", 400)

DecodeFailedResponse(r) ==
  ErrorResponse(
    IF r = "dynamic"
    THEN "Failed to decode audio. Please upload a WAV (PCM) file or use a server decoder (ffmpeg) for other formats."
    ELSE "Failed to decode audio. Please upload a WAV or supported PCM file.", 415)

NoSamplesResponse == ErrorResponse("No audio samples found", 422)

NoDecoderResponse ==
  ErrorResponse("Audio decoder not available on the server. Ensure wav-decoder is installed.", 500)

\* !channels.length || !channels[0] || channels[0].length === 0
NoSamples(channels) ==
  Len(channels) = 0 \/ channels[1].hole \/ Len(channels[1].data) = 0

\* mutant: the sums are not divided by the number of channels
MonoNotDivided(channels) ==
  IF \E ch \in 1..Len(channels) : channels[ch].hole THEN Threw("TypeError")
  ELSE LET len == MinSeq([ch \in 1..Len(channels) |-> Len(channels[ch].data)])
       IN Returned([v |-> [i \in 1..len |->
                            SumSeq([ch \in 1..Len(channels) |-> channels[ch].data[i]])],
                    u |-> Scale])

\* the body of the downmix's try block; c.length of a hole throws TypeError
Mono(channels) ==
  IF \E ch \in 1..Len(channels) : channels[ch].hole THEN Threw("TypeError")
  ELSE LET len == MinSeq([ch \in 1..Len(channels) |-> Len(channels[ch].data)])
       IN Returned([v |-> [i \in 1..len |->
                            SumSeq([ch \in 1..Len(channels) |-> channels[ch].data[i]])],
                    u |-> Scale * Len(channels)])

\* let samples = channels[0]; if (channels.length > 1) { try {...} catch { samples = channels[0] } }
Downmix(channels) ==
  LET first == [v |-> channels[1].data, u |-> Scale]
  IN IF Len(channels) > 1
     THEN LET m == Mono(channels) IN IF m.threw = "" THEN m.val[1] ELSE first
     ELSE first

\* mutant: the raw text is not trimmed
FallbackUntrimmed(text) == JObj(<<"mixSummary", "recommendations">>, <<JStr(text), JArr(<<>>)>>)

\* { mixSummary: text.trim(), recommendations: [] }
Fallback(text) == JObj(<<"mixSummary", "recommendations">>, <<JStr(trim(text)), JArr(<<>>)>>)

\* try { feedback = JSON.parse(text) } catch { feedback = fallback }
ParseFeedback(text) == LET r == JSONparse(text) IN IF r.ok THEN r.v ELSE Fallback(text)

\* the feedback of the response sent when the OpenAI class is missing
Unavailable == JObj(<<"mixSummary", "recommendations">>,
                    <<JStr("OpenAI client not available"), JArr(<<>>)>>)

UnexpectedSurface == "OpenAI client API surface unexpected; no completion was called."

\* the call shapes the handler probes for, in order, and "none"
Surfaces == {"chat.completions.create", "chat.create", "completions.create", "none"}

\* The locals the synchronous code between two awaits reads and writes.
Locals ==
  [pc |-> pc, openai |-> openai, wav |-> wav, samples |-> samples, analysis |-> analysis,
   completion |-> completion, aiText |-> aiText, feedback |-> feedback, calls |-> calls,
   responses |-> responses]

Store(l) ==
  /\ pc' = l.pc
  /\ openai' = l.openai
  /\ wav' = l.wav
  /\ samples' = l.samples
  /\ analysis' = l.analysis
  /\ completion' = l.completion
  /\ aiText' = l.aiText
  /\ feedback' = l.feedback
  /\ calls' = l.calls
  /\ responses' = l.responses

\* return NextResponse.json(...)
Return(l, r) == [l EXCEPT !.pc = "done", !.responses = Append(@, r)]

\* mutant: the call is made a second time
AwaitRetried(l, at, callee) == [l EXCEPT !.pc = at, !.calls = @ \o <<callee, callee>>]

\* the collaborator callee is called and the handler suspended at the await named at
Await(l, at, callee) == [l EXCEPT !.pc = at, !.calls = Append(@, callee)]

\* from the text of the completion to the response: parse, fall back, respond 200
Respond(l, text) ==
  LET f == ParseFeedback(text)
  IN Return([l EXCEPT !.aiText = text, !.feedback = <<f>>],
            OkResponse(l.analysis[1], f, metadata))

\* route.js 139-174: the client is built and the completion called
CallOpenAI(l, ctor, surface) ==
  IF OpenAI # "class" THEN Return(l, OkResponse(l.analysis[1], Unavailable, metadata))
  ELSE IF ctor # "" THEN Return([l EXCEPT !.openai = "threw"], Unhandled(ctor))
  ELSE IF surface = "none" THEN Respond([l EXCEPT !.openai = "constructed"], UnexpectedSurface)
  ELSE Await([l EXCEPT !.openai = "constructed", !.completion = "pending"], "create", surface)

\* the static module built its client when it was loaded and calls chat.completions.create
CallOpenAIStatic(l) ==
  Await([l EXCEPT !.completion = "pending"], "create", "chat.completions.create")

\* decode has settled with l.wav: the channel check, the downmix, the metrics and the
\* call of the completion.  The decoded audio is read for the last time by the
\* downmix: it is forgotten once the mono buffer exists.
AfterDecode(l, ctor, surface) ==
  IF l.wav.state = "threw" THEN Return(l, DecodeFailedResponse(route))
  ELSE IF NoSamples(l.wav.channelData) THEN Return(l, NoSamplesResponse)
  ELSE LET s == Downmix(l.wav.channelData)
           a == analyzeAudio(s)
           l2 == [l EXCEPT !.samples = <<s>>, !.wav = NotDecoded]
       IN IF a.threw # "" THEN Return(l2, Unhandled("Maximum call stack size exceeded"))
          ELSE LET l3 == [l2 EXCEPT !.analysis = a.val]
               IN IF route = "dynamic" THEN CallOpenAI(l3, ctor, surface)
                  ELSE CallOpenAIStatic(l3)

\* route.js 77-87: the decoder is looked up and called
CallDecode(l, decoder) ==
  IF ~decoder THEN Return(l, NoDecoderResponse) ELSE Await(l, "decode", "decode")

\* the channels the modelled decoder returns
Channels ==
  {Hole} \cup {Float32Array(d) : d \in SeqsUpTo(Amplitudes, MaxFrames) \cup {LongRecording}}

\* what decode settles with: it throws, or resolves with a list of channels
DecodeOutcomes == {DecodeThrew} \cup {DecodeResolved(c) : c \in SeqsUpTo(Channels, MaxChannels)}

\* what new OpenAI(...) throws ("" : nothing, the client is built)
CtorOutcomes == {"", "The OPENAI_API_KEY environment variable is missing or empty"}

InitHandler ==
  /\ route \in {"dynamic", "static"}
  /\ pc = "formData"
  /\ file = "unread"
  /\ mm = (route = "static")
  /\ wavDecoder = (route = "static")
  /\ OpenAI = IF route = "static" THEN "class" ELSE "unset"
  /\ openai = IF route = "static" THEN "constructed" ELSE "none"
  /\ metadata = EmptyMetadata
  /\ wav = NotDecoded
  /\ samples = <<>>
  /\ analysis = <<>>
  /\ completion = "none"
  /\ aiText = ""
  /\ feedback = <<>>
  /\ calls = <<>>
  /\ responses = <<>>

\* await req.formData(); formData.get("file")
FormData ==
  /\ pc = "formData"
  /\ \/ \E m \in Messages : Store(Return(Locals, Unhandled(m))) /\ file' = file
     \/ file' = "missing" /\ Store(Return(Locals, NoFileResponse))
     \/ file' = "present" /\ Store([Locals EXCEPT !.pc = "arrayBuffer"])
  /\ UNCHANGED <<route, mm, wavDecoder, OpenAI, metadata, avars, pvars>>

\* await file.arrayBuffer(); the static module goes on to call the metadata parser
ArrayBuffer ==
  /\ pc = "arrayBuffer"
  /\ \/ \E m \in Messages : Store(Return(Locals, Unhandled(m)))
     \/ Store(IF route = "dynamic" THEN [Locals EXCEPT !.pc = "import"]
              ELSE Await(Locals, "parseBuffer", "parseBuffer"))
  /\ UNCHANGED <<route, file, mm, wavDecoder, OpenAI, metadata, avars, pvars>>

\* route.js 55-75: the three modules are imported (a failed import of music-metadata
\* or wav-decoder yields null, a failed import of openai rejects), then the metadata
\* parser is called if there is one.  Loading a module touches nothing of the request:
\* the awaits of the imports are one step.
Import ==
  /\ pc = "import"
  /\ \E m \in BOOLEAN, d \in BOOLEAN, o \in {"class", "undefined", "rejects"} :
       /\ mm' = m
       /\ wavDecoder' = d
       /\ IF o = "rejects"
          THEN /\ OpenAI' = "rejected"
               /\ Store(Return(Locals, Unhandled("Cannot find module 'openai'")))
          ELSE /\ OpenAI' = o
               /\ Store(IF m THEN Await(Locals, "parseBuffer", "parseBuffer")
                        ELSE CallDecode(Locals, d))
  /\ UNCHANGED <<route, file, metadata, avars, pvars>>

\* await mm.parseBuffer(...) settles (a failure is swallowed), then the decoder is called
ParseBuffer ==
  /\ pc = "parseBuffer"
  /\ \/ \E f \in Formats \cup {EmptyMetadata} : metadata' = f
     \/ metadata' = EmptyMetadata
  /\ Store(CallDecode(Locals, wavDecoder))
  /\ UNCHANGED <<route, file, mm, wavDecoder, OpenAI, avars, pvars>>

\* the promise of decode(arrayBuffer) settles: it rejects, or resolves with channels
Decode ==
  /\ pc = "decode"
  /\ \E w \in DecodeOutcomes : Store([Locals EXCEPT !.wav = w, !.pc = "decoded"])
  /\ UNCHANGED <<route, file, mm, wavDecoder, OpenAI, metadata, avars, pvars>>

\* the handler resumes after decode and runs on to the completion call or a response
Decoded ==
  /\ pc = "decoded"
  /\ \E ctor \in (IF route = "dynamic" /\ OpenAI = "class" THEN CtorOutcomes ELSE {""}) :
       \E surface \in (IF route = "dynamic" /\ OpenAI = "class" /\ ctor = ""
                       THEN Surfaces ELSE {"none"}) :
         Store(AfterDecode(Locals, ctor, surface))
  /\ UNCHANGED <<route, file, mm, wavDecoder, OpenAI, metadata, avars, pvars>>

\* the completion call settles: its text (or, in route.js, the message of its error)
\* is parsed and the response returned
Create ==
  /\ pc = "create"
  /\ \/ \E t \in AiTexts : Store(Respond([Locals EXCEPT !.completion = "resolved"], t))
     \/ \E m \in Messages :
          LET l == [Locals EXCEPT !.completion = "rejected"]
          IN Store(IF route = "dynamic" THEN Respond(l, m) ELSE Return(l, Unhandled(m)))
  /\ UNCHANGED <<route, file, mm, wavDecoder, OpenAI, metadata, avars, pvars>>

\* ------------------------------------------------------------- SpecAudio

\* analyzeAudio applied to every buffer within the bounds.
Buffers == [v : SeqsUpTo(AudioAmplitudes, MaxLen) \cup {LongRecording}, u : {Scale, 2 * Scale}]

InitAudio == buf \in Buffers /\ metrics = <<>>

IdleAudio == buf = [v |-> <<>>, u |-> Scale] /\ metrics = <<>>

Analyze ==
  /\ metrics = <<>>
  /\ metrics' = <<analyzeAudio(buf)>>
  /\ UNCHANGED <<buf, hvars, pvars>>

\* ----------------------------------------------------------- AnalyzePanel

\* the files the user can select
Files == {"mix.wav", "stem.mp3", "vocals.flac"}

\* the bodies of a 200 response ("null" : the JSON null)
Bodies ==
  {"null", "analysis and feedback", "analysis and fallback feedback",
   "analysis and feedback that is no object", "empty-input analysis"}

\* the `error` fields of the body of a failed response ("" : none, or empty)
ErrorFields ==
  {"", "No file uploaded", "No audio samples found", "Internal server error",
   "Failed to decode audio. Please upload a WAV or supported PCM file."}

InitPanelState ==
  /\ panelFile = ""
  /\ result = <<>>
  /\ loading = FALSE
  /\ error = ""
  /\ submit = "idle"

\* the submit button: disabled={!file || loading}
ButtonEnabled == panelFile # "" /\ ~loading

\* onChange of the file input: setFile(e.target.files[0] || null)
onChange ==
  /\ \E f \in Files \cup {""} : panelFile' = f
  /\ UNCHANGED <<result, loading, error, submit, hvars, avars>>

\* the form is submitted through its button: handleSubmit up to the await of fetch
handleSubmit ==
  /\ submit = "idle"
  /\ ButtonEnabled
  /\ IF panelFile = ""
     THEN /\ error' = "Please select an audio file."
          /\ UNCHANGED <<loading, submit>>
     ELSE /\ error' = ""
          /\ loading' = TRUE
          /\ submit' = "fetch"
  /\ UNCHANGED <<panelFile, result, hvars, avars>>

\* mutant: the catch block does not clear the result
CatchKeepsResult(message) ==
  /\ error' = IF message = "" THEN "Analysis failed" ELSE message
  /\ result' = result
  /\ loading' = FALSE
  /\ submit' = "idle"

\* catch (err) { setError(err.message || "Analysis failed"); setResult(null) }
\* finally { setLoading(false) }
Catch(message) ==
  /\ error' = IF message = "" THEN "Analysis failed" ELSE message
  /\ result' = <<>>
  /\ loading' = FALSE
  /\ submit' = "idle"

\* the fetch settles: it rejects, or resolves with a response that is ok or not
FetchSettled ==
  /\ submit = "fetch"
  /\ \/ \E m \in {"", "Failed to fetch"} : Catch(m)
     \/ /\ \E ok \in BOOLEAN : submit' = IF ok THEN "json" ELSE "errorJson"
        /\ UNCHANGED <<result, loading, error>>
  /\ UNCHANGED <<panelFile, hvars, avars>>

\* res.json() of a response that is ok settles: setResult(data), or the catch
JsonSettled ==
  /\ submit = "json"
  /\ \/ \E d \in Bodies :
          /\ result' = IF d = "null" THEN <<>> ELSE <<d>>
          /\ loading' = FALSE
          /\ submit' = "idle"
          /\ error' = error
     \/ Catch("Unexpected end of JSON input")
  /\ UNCHANGED <<panelFile, hvars, avars>>

\* res.json() of a response that is not ok settles:
\* throw new Error(err?.error || "Upload failed"), err being { error: "Unknown error" }
\* when the body is no JSON
ErrorJsonSettled ==
  /\ submit = "errorJson"
  /\ \/ \E e \in ErrorFields : Catch(IF e = "" THEN "Upload failed" ELSE e)
     \/ Catch("Unknown error")
  /\ UNCHANGED <<panelFile, hvars, avars>>

\* --------------------------------------------------------- specifications

\* One request through the POST handler.
Init == InitHandler /\ IdleAudio /\ InitPanelState
Next == FormData \/ ArrayBuffer \/ Import \/ ParseBuffer \/ Decode \/ Decoded \/ Create
Spec == Init /\ [][Next]_vars

\* analyzeAudio on every buffer within the bounds.
InitAnalyze == InitAudio /\ InitHandler /\ route = "dynamic" /\ InitPanelState
NextAnalyze == Analyze
SpecAudio == InitAnalyze /\ [][NextAnalyze]_vars

\* The AnalyzePanel component under any sequence of selections and submissions.
InitPanel == InitPanelState /\ InitHandler /\ route = "dynamic" /\ IdleAudio
NextPanel == onChange \/ handleSubmit \/ FetchSettled \/ JsonSettled \/ ErrorJsonSettled
SpecPanel == InitPanel /\ [][NextPanel]_vars

\* ----------------------------------------------------------------- claims

\* the response of a finished request
TheResponse == responses[1]

\* decode resolved with no channel, or with a first channel of no frames
EmptyDecode(w) ==
  w.state = "ok" /\ (Len(w.channelData) = 0 \/ Len(w.channelData[1].data) = 0)

\* C1: a finished request whose form had no file is answered 400, one whose decoder
\* threw 415, one whose decoder yielded no channel or an empty first channel 422;
\* every failure response holds an error string and no analysis, its status is one
\* of 400, 415, 422 and 500, and 400, 415 and 422 are sent for their class only.
C1_FailureStatus ==
  pc = "done" =>
    /\ Len(responses) = 1
    /\ (file = "missing" => TheResponse.status = 400)
    /\ (wav.state = "threw" => TheResponse.status = 415)
    /\ (EmptyDecode(wav) => TheResponse.status = 422)
    /\ TheResponse.status # 200 =>
         /\ Len(TheResponse.error) = 1
         /\ TheResponse.error[1] # ""
         /\ TheResponse.analysis = <<>>
         /\ TheResponse.feedback = <<>>
         /\ TheResponse.status \in {400, 415, 422, 500}
         /\ (TheResponse.status = 400 => file = "missing")
         /\ (TheResponse.status = 415 => wav.state = "threw")
         /\ (TheResponse.status = 422 => EmptyDecode(wav))

\* C1 witness: a decoded but empty upload has been answered 422
C1_Witness ==
  /\ pc = "done"
  /\ wav = DecodeResolved(<<Float32Array(<<>>), Float32Array(<<100>>)>>)
  /\ TheResponse.status = 422

\* the text-generation service failed: its module did not load, its client could
\* not be built, or the completion call threw or rejected
ServiceFailed == OpenAI = "rejected" \/ openai = "threw" \/ completion = "rejected"

\* a 200 response that holds an analysis and a feedback
Degraded(r) == r.status = 200 /\ Len(r.analysis) = 1 /\ Len(r.feedback) = 1

\* C2: when a file is present and decoding yielded a non-empty sample buffer, a
\* failure of the text-generation service still ends in a 200 response with an
\* analysis and a fallback feedback.
C2_ServiceFailureDegrades ==
  (pc = "done" /\ file = "present" /\ samples # <<>> /\ analysis # <<>> /\ ServiceFailed)
    => (Len(samples[1].v) > 0 => Degraded(TheResponse))

\* C3: when the completion resolves with a text that is no valid JSON, the request is
\* answered 200 with feedback.mixSummary the trimmed text and feedback.recommendations
\* the empty list, and with no error.
C3_MalformedTextFallsBack ==
  (pc = "done" /\ completion = "resolved" /\ ~JSONparse(aiText).ok) =>
    /\ Len(responses) = 1
    /\ TheResponse.status = 200
    /\ TheResponse.error = <<>>
    /\ Len(TheResponse.feedback) = 1
    /\ TheResponse.feedback[1].t = "object"
    /\ TheResponse.feedback[1].keys = <<"mixSummary", "recommendations">>
    /\ Member(TheResponse.feedback[1], "mixSummary") = JStr(trim(aiText))
    /\ Member(TheResponse.feedback[1], "recommendations") = JArr(<<>>)

\* C3 witness: a prose answer with white space around it has been answered
C3_Witness ==
  /\ pc = "done"
  /\ completion = "resolved"
  /\ aiText = " Solid low end, vocals sit well. \n"
  /\ TheResponse.status = 200
  /\ Member(TheResponse.feedback[1], "mixSummary").s = "Solid low end, vocals sit well."

\* { mixSummary: string, recommendations: sequence of strings }
FeedbackShape(f) ==
  /\ f.t = "object"
  /\ Member(f, "mixSummary").t = "string"
  /\ Member(f, "recommendations").t = "array"
  /\ \A i \in 1..Len(Member(f, "recommendations").items) :
       Member(f, "recommendations").items[i].t = "string"

\* C4: the feedback of every 200 response is an object with a string mixSummary and
\* a recommendations list of strings.
C4_FeedbackHasShape ==
  \A i \in 1..Len(responses) :
    responses[i].status = 200 => FeedbackShape(responses[i].feedback[1])

\* C5: analyzeAudio is never handed an empty buffer, and no 200 response carries the
\* empty-input record.
C5_NeverAnalyzesEmpty ==
  /\ samples # <<>> => Len(samples[1].v) > 0
  /\ \A i \in 1..Len(responses) :
       responses[i].status = 200 => responses[i].analysis # <<EmptyMetrics>>

MetricFields == {"rms", "peak", "dynamicRange", "lufs", "stereoWidth"}

\* C6: every call of analyzeAudio returns a record of the five metrics; none throws.
C6_NeverThrows ==
  metrics # <<>> =>
    /\ metrics[1].threw = ""
    /\ Len(metrics[1].val) = 1
    /\ DOMAIN metrics[1].val[1] = MetricFields

\* the buffer is not empty and holds zeros only
AllZero(v) == v # <<>> /\ \A i \in 1..Len(v) : v[i] = 0

\* the stereo width the claim gives the buffer [v, u], in tenths
ClaimedWidth(v, u) ==
  IF v = <<>> THEN 0
  ELSE IF Abs(SumSeq(v)) * 100 < Len(v) * u THEN 7 ELSE 9

\* C7: for every buffer analyzeAudio yields a record whose stereoWidth is 0 exactly
\* for the empty buffer (whose record is the sentinel), 0.7 for a non-empty buffer
\* with abs(mean) < 0.01 and 0.9 otherwise; an all-zero buffer gets 0.7 and a
\* dynamic range of 0, not the sentinel.
C7_StereoWidth ==
  metrics # <<>> =>
    /\ Len(metrics[1].val) = 1
    /\ metrics[1].val[1].stereoWidth = ClaimedWidth(buf.v, buf.u)
    /\ (metrics[1].val[1].stereoWidth = 0 <=> buf.v = <<>>)
    /\ (buf.v = <<>> =>
          metrics[1].val[1] = [rms |-> "0.000", peak |-> "0.000", dynamicRange |-> "0.00",
                               lufs |-> "0.00", stereoWidth |-> 0])
    /\ (AllZero(buf.v) =>
          /\ metrics[1].val[1].stereoWidth = 7
          /\ metrics[1].val[1].dynamicRange = "0.00"
          /\ metrics[1].val[1].lufs # "0.00")

\* the sum of the i-th samples of the channels
FrameSum(channels, i) == SumSeq([ch \in 1..Len(channels) |-> channels[ch].data[i]])

\* the mono buffer the claim gives the channels
ClaimedMono(channels, s) ==
  LET first == [v |-> channels[1].data, u |-> Scale]
      k == Len(channels)
  IN IF k = 1 THEN s = first
     ELSE IF \E ch \in 1..k : channels[ch].hole THEN s = first
     ELSE /\ \A ch \in 1..k : Len(s.v) <= Len(channels[ch].data)
          /\ \E ch \in 1..k : Len(s.v) = Len(channels[ch].data)
          /\ s.u = k * Scale
          /\ \A i \in 1..Len(s.v) : s.v[i] = FrameSum(channels, i)

\* C8: the buffer the handler computes from the decoded channels is the first channel
\* when there is one channel; for k > 1 channels it has the length of the shortest and
\* its i-th element is the sum of their i-th samples divided by k; when the downmix
\* fails it is the first channel, and the handler goes on to the metrics.
C8_Downmix ==
  [][(pc = "decoded" /\ samples' # <<>>) =>
       /\ ClaimedMono(wav.channelData, samples'[1])
       /\ analysis' # <<>> \/ Len(samples'[1].v) > MaxSpreadArgs]_vars

\* C8 witness: two channels of two and one frames have been averaged
C8_Witness ==
  /\ pc = "create"
  /\ samples = <<[v |-> <<200>>, u |-> 2 * Scale]>>
  /\ analysis # <<>>

\* the collaborator a call goes to
Callee(c) == IF c \in Surfaces THEN "create" ELSE c

\* the place of a collaborator in the order of the handler
Rank(c) == CASE Callee(c) = "parseBuffer" -> 1 [] Callee(c) = "decode" -> 2 [] OTHER -> 3

\* C9 (state part): each collaborator is called at most once and in the order metadata
\* parser, decoder, completion; a request has one response exactly when it is done.
C9_CallsAndResponses ==
  /\ \A i, j \in 1..Len(calls) : i < j => Rank(calls[i]) < Rank(calls[j])
  /\ \A i \in 1..Len(calls) : Callee(calls[i]) \in {"parseBuffer", "decode", "create"}
  /\ Len(responses) = IF pc = "done" THEN 1 ELSE 0
  /\ pc = "done" => TheResponse.status \in {200, 400, 415, 422, 500}

\* C9 (step part): the completion is called only in the step that follows a decode
\* that succeeded, for a file that was found, with samples in the first channel; and
\* nothing changes once the response is returned.
C9_CompletionStep ==
  /\ (Len(calls') > Len(calls) /\ Callee(calls'[Len(calls')]) = "create") =>
       /\ pc = "decoded"
       /\ file = "present"
       /\ wav.state = "ok"
       /\ Len(wav.channelData) > 0
       /\ Len(wav.channelData[1].data) > 0
  /\ pc = "done" => UNCHANGED vars

C10_ErrorExcludesResult ==
  /\ submit = "idle" => ~loading
  /\ ~(error # "" /\ result # <<>>)

\* C10 witness: a submission has failed after the selection was cleared
C10_Witness ==
  /\ submit = "idle"
  /\ panelFile = ""
  /\ error = "Failed to fetch"
  /\ result = <<>>
====
